---- MODULE Spec2Model ----
(***************************************************************************)
(* Model of neat/genes.py: BaseGene, DefaultNodeGene and                   *)
(* DefaultConnectionGene.                                                  *)
(*                                                                         *)
(* Python values are modelled as tagged records so that type tests         *)
(* (isinstance, hasattr) are decided from the tag the way the interpreter  *)
(* decides them from the object.  Floats are integers; only the            *)
(* compatibility weight coefficient is fixed point, counted in halves, so  *)
(* a distance is counted in halves as well.                                *)
(***************************************************************************)
EXTENDS Integers, Sequences, FiniteSets, TLC

VARIABLES heap, last

vars == <<heap, last>>

(***************************************************************************)
(* Bounds of the model.                                                    *)
(***************************************************************************)
MaxGenes == 2
MaxFloat == 2
MaxCoeff == 2
MaxFuncDist == 2

(***************************************************************************)
(* Python values held by genes: keys and attribute values.                 *)
(***************************************************************************)
Scalar(t, n) == [type |-> t, n |-> n, elems |-> <<>>]

IntKey(n) == Scalar("int", n)

BoolKey(n) == Scalar("bool", n)

StrKey(n) == Scalar("str", n)

TupleKey(s) == [type |-> "tuple", n |-> 0, elems |-> s]

\* isinstance(x, T): bool is a subclass of int.
IsInstance(x, T) == x.type = T \/ (x.type = "bool" /\ T = "int")

IsNumber(x) == x.type \in {"int", "bool"}

\* x == y on scalars.
ScalarEq(x, y) ==
    \/ IsNumber(x) /\ IsNumber(y) /\ x.n = y.n
    \/ x.type = "str" /\ y.type = "str" /\ x.n = y.n

\* x < y on scalars: "TypeError" when the operands are not orderable.
ScalarLt(x, y) ==
    IF IsNumber(x) /\ IsNumber(y) THEN [err |-> "none", ret |-> x.n < y.n]
    ELSE IF x.type = "str" /\ y.type = "str" THEN [err |-> "none", ret |-> x.n < y.n]
    ELSE [err |-> "TypeError", ret |-> FALSE]

\* k1 == k2 on keys.
PyEq(k1, k2) ==
    IF k1.type = "tuple" /\ k2.type = "tuple"
    THEN /\ Len(k1.elems) = Len(k2.elems)
         /\ \A i \in 1..Len(k1.elems) : ScalarEq(k1.elems[i], k2.elems[i])
    ELSE IF k1.type # "tuple" /\ k2.type # "tuple" THEN ScalarEq(k1, k2)
    ELSE FALSE

Min(a, b) == IF a < b THEN a ELSE b

\* k1 < k2 on keys: tuples compare at the first position where they differ.
PyLt(k1, k2) ==
    IF k1.type = "tuple" /\ k2.type = "tuple"
    THEN LET m == Min(Len(k1.elems), Len(k2.elems))
             diff == {i \in 1..m : ~ScalarEq(k1.elems[i], k2.elems[i])}
         IN IF diff = {}
            THEN [err |-> "none", ret |-> Len(k1.elems) < Len(k2.elems)]
            ELSE LET i == CHOOSE j \in diff : \A q \in diff : j <= q
                 IN ScalarLt(k1.elems[i], k2.elems[i])
    ELSE IF k1.type # "tuple" /\ k2.type # "tuple" THEN ScalarLt(k1, k2)
    ELSE [err |-> "TypeError", ret |-> FALSE]

\* Attribute values.
Float(x) == [kind |-> "float", n |-> x, name |-> "", clone |-> FALSE]

Bool(b) == [kind |-> "bool", n |-> IF b THEN 1 ELSE 0, name |-> "", clone |-> FALSE]

\* An option name: a plain string.
Str(s) == [kind |-> "str", n |-> 0, name |-> s, clone |-> FALSE]

\* A registered function object that defines its own distance and copy.
Func(s) == [kind |-> "func", n |-> 0, name |-> s, clone |-> FALSE]

\* hasattr(value, 'copy')
HasCopy(v) == v.kind = "func"

\* hasattr(value, 'distance')
HasDistance(v) == v.kind = "func"

\* value.copy(): a distinct object with the same content.
ValueCopy(v) == [v EXCEPT !.clone = TRUE]

\* v == w on attribute values: by content.
ValueEq(v, w) == v.kind = w.kind /\ v.n = w.n /\ v.name = w.name

Abs(x) == IF x < 0 THEN -x ELSE x

\* value.distance(other) of a registered function object; gap is the
\* distance its registry gives to a different function.
FuncDistance(v, w, gap) == IF ValueEq(v, w) THEN 0 ELSE gap

(***************************************************************************)
(* Attribute descriptors.                                                  *)
(***************************************************************************)
Attr(nm, k) == [name |-> nm, kind |-> k]

NodeGeneAttributes ==
    << Attr("bias", "float"), Attr("response", "float"),
       Attr("activation", "func"), Attr("aggregation", "func") >>

ConnectionGeneAttributes == << Attr("weight", "float"), Attr("enabled", "bool") >>

GeneAttributes(cls) ==
    IF cls = "node" THEN NodeGeneAttributes ELSE ConnectionGeneAttributes

AttrNames(cls) == {GeneAttributes(cls)[i].name : i \in 1..Len(GeneAttributes(cls))}

AllNames == AttrNames("node") \cup AttrNames("conn")

\* a.init_value(config): any value the configuration permits for the attribute.
InitValue(a, config) == config[a.name]

\* a.mutate_value(v, config): v itself or any value the configuration permits.
MutateValue(a, v, config) == {v} \cup config[a.name]

(***************************************************************************)
(* Gene objects.                                                           *)
(***************************************************************************)
NoAttrs == [x \in {} |-> Float(0)]

\* BaseGene.__init__
BaseGeneInit(cls, key) == [cls |-> cls, key |-> key, attrs |-> NoAttrs]

\* setattr(gene, name, value)
SetAttr(g, nm, v) ==
    [g EXCEPT !.attrs = [x \in (DOMAIN g.attrs) \cup {nm} |->
                            IF x = nm THEN v ELSE g.attrs[x]]]

\* hasattr(gene, name)
HasAttr(g, nm) == nm \in DOMAIN g.attrs

\* A constructor check that forgets the connection gene.
KeyAcceptedNodeOnly(cls, key) ==
    IF cls = "node" THEN IsInstance(key, "int") ELSE TRUE

\* The assertion of the variant's constructor.
KeyAccepted(cls, key) ==
    IF cls = "node" THEN IsInstance(key, "int") ELSE IsInstance(key, "tuple")

Live == 1..Len(heap)

NoKey == Scalar("none", 0)

Outcome(op, self, other, res, err) ==
    [op |-> op, self |-> self, other |-> other, res |-> res, err |-> err,
     arg |-> NoKey, cls |-> "", lt |-> FALSE, dist |-> 0, k |-> 0, gap |-> 0]

(***************************************************************************)
(* Constructors.                                                           *)
(***************************************************************************)
\* DefaultNodeGene.__init__ / DefaultConnectionGene.__init__: the gene, or
\* the assertion failing before any object is handed back.
NewGene(cls, key) ==
    IF KeyAccepted(cls, key)
    THEN [err |-> "none", gene |-> BaseGeneInit(cls, key)]
    ELSE [err |-> "AssertionError", gene |-> BaseGeneInit(cls, NoKey)]

Construct(cls, key, cap) ==
    LET r == NewGene(cls, key)
    IN IF r.err = "none"
       THEN /\ Len(heap) < cap
            /\ heap' = Append(heap, r.gene)
            /\ last' = [Outcome("construct", 0, 0, Len(heap) + 1, "none")
                           EXCEPT !.arg = key, !.cls = cls]
       ELSE /\ heap' = heap
            /\ last' = [Outcome("construct", 0, 0, 0, r.err)
                           EXCEPT !.arg = key, !.cls = cls]

(***************************************************************************)
(* BaseGene.init_attributes and BaseGene.mutate.                           *)
(***************************************************************************)
\* The loop of init_attributes from position i; draw[name] is what
\* init_value returned for that attribute.
\* An init loop that stops one attribute early.
RECURSIVE InitLoopShort(_, _, _, _)
InitLoopShort(g, attrs, i, draw) ==
    IF i >= Len(attrs) THEN g
    ELSE InitLoopShort(SetAttr(g, attrs[i].name, draw[attrs[i].name]), attrs, i + 1, draw)

RECURSIVE InitLoop(_, _, _, _)
InitLoop(g, attrs, i, draw) ==
    IF i > Len(attrs) THEN g
    ELSE InitLoop(SetAttr(g, attrs[i].name, draw[attrs[i].name]), attrs, i + 1, draw)

InitDraws(cls, config) ==
    {d \in [AttrNames(cls) -> UNION {config[x] : x \in AttrNames(cls)}] :
        \A i \in 1..Len(GeneAttributes(cls)) :
            d[GeneAttributes(cls)[i].name] \in InitValue(GeneAttributes(cls)[i], config)}

InitAttributes(g, config) ==
    /\ g \in Live
    /\ \E d \in InitDraws(heap[g].cls, config) :
          heap' = [heap EXCEPT ![g] = InitLoop(heap[g], GeneAttributes(heap[g].cls), 1, d)]
    /\ last' = Outcome("init_attributes", g, 0, 0, "none")

\* The loop of mutate from position i; getattr fails on an attribute that
\* was never set.
RECURSIVE MutateLoop(_, _, _, _)
MutateLoop(g, attrs, i, draw) ==
    IF i > Len(attrs) THEN [err |-> "none", gene |-> g]
    ELSE IF ~HasAttr(g, attrs[i].name) THEN [err |-> "AttributeError", gene |-> g]
    ELSE MutateLoop(SetAttr(g, attrs[i].name, draw[attrs[i].name]), attrs, i + 1, draw)

MutateDraws(g, config) ==
    {d \in [AttrNames(g.cls) -> UNION {config[x] \cup {g.attrs[y] : y \in DOMAIN g.attrs} :
                                          x \in AttrNames(g.cls)}] :
        \A i \in 1..Len(GeneAttributes(g.cls)) :
            LET a == GeneAttributes(g.cls)[i]
            IN IF HasAttr(g, a.name)
               THEN d[a.name] \in MutateValue(a, g.attrs[a.name], config)
               ELSE d[a.name] \in InitValue(a, config)}

Mutate(g, config) ==
    /\ g \in Live
    /\ \E d \in MutateDraws(heap[g], config) :
          LET r == MutateLoop(heap[g], GeneAttributes(heap[g].cls), 1, d)
          IN /\ heap' = [heap EXCEPT ![g] = r.gene]
             /\ last' = Outcome("mutate", g, 0, 0, r.err)

(***************************************************************************)
(* BaseGene.copy and BaseGene.crossover.                                   *)
(***************************************************************************)
\* The value stored in the new gene for a value read from a parent.
CopyValue(v) == IF HasCopy(v) THEN ValueCopy(v) ELSE v

RECURSIVE CopyLoop(_, _, _, _)
CopyLoop(self, new_gene, attrs, i) ==
    IF i > Len(attrs) THEN [err |-> "none", gene |-> new_gene]
    ELSE IF ~HasAttr(self, attrs[i].name) THEN [err |-> "AttributeError", gene |-> new_gene]
    ELSE CopyLoop(self, SetAttr(new_gene, attrs[i].name, CopyValue(self.attrs[attrs[i].name])),
                  attrs, i + 1)

\* self.copy(): the new gene, or the error that ended the call.
GeneCopy(self) ==
    LET c == NewGene(self.cls, self.key)
    IN IF c.err # "none" THEN c
       ELSE CopyLoop(self, c.gene, GeneAttributes(self.cls), 1)

\* A copy that hands back the gene it was called on.
CopyTargetSelf(g) == g

\* The object copy returns: new_gene, a new object.
CopyTarget(g) == Len(heap) + 1

Copy(g, cap) ==
    /\ g \in Live
    /\ LET r == GeneCopy(heap[g])
           t == CopyTarget(g)
       IN IF r.err = "none"
          THEN /\ Len(heap) < cap
               /\ heap' = [x \in 1..(IF t > Len(heap) THEN t ELSE Len(heap)) |->
                              IF x = t THEN r.gene ELSE heap[x]]
               /\ last' = Outcome("copy", g, 0, t, "none")
          ELSE /\ heap' = heap
               /\ last' = Outcome("copy", g, 0, 0, r.err)

\* One draw for the whole gene.
CrossoverCoinsSingle(attrs) ==
    {c \in [1..Len(attrs) -> BOOLEAN] : \A i \in 1..Len(attrs) : c[i] = c[1]}

\* The draws of random() > 0.5, one per attribute of the list.
CrossoverCoins(attrs) == [1..Len(attrs) -> BOOLEAN]

\* A crossover loop that reads the first attribute of the parent every time.
RECURSIVE CrossoverLoopFirst(_, _, _, _, _, _)
CrossoverLoopFirst(self, gene2, new_gene, attrs, i, coin) ==
    IF i > Len(attrs) THEN [err |-> "none", gene |-> new_gene]
    ELSE LET parent == IF coin[i] THEN self ELSE gene2
         IN IF ~HasAttr(parent, attrs[1].name)
            THEN [err |-> "AttributeError", gene |-> new_gene]
            ELSE CrossoverLoopFirst(self, gene2,
                                    SetAttr(new_gene, attrs[i].name,
                                            CopyValue(parent.attrs[attrs[1].name])),
                                    attrs, i + 1, coin)

RECURSIVE CrossoverLoop(_, _, _, _, _, _)
CrossoverLoop(self, gene2, new_gene, attrs, i, coin) ==
    IF i > Len(attrs) THEN [err |-> "none", gene |-> new_gene]
    ELSE LET parent == IF coin[i] THEN self ELSE gene2
         IN IF ~HasAttr(parent, attrs[i].name)
            THEN [err |-> "AttributeError", gene |-> new_gene]
            ELSE CrossoverLoop(self, gene2,
                               SetAttr(new_gene, attrs[i].name,
                                       CopyValue(parent.attrs[attrs[i].name])),
                               attrs, i + 1, coin)

\* A crossover without its assertion.
CrossoverKeysUnchecked(self, gene2) == TRUE

\* assert self.key == gene2.key
CrossoverKeysMatch(self, gene2) == PyEq(self.key, gene2.key)

\* self.crossover(gene2) under the draws coin.
GeneCrossover(self, gene2, coin) ==
    IF ~CrossoverKeysMatch(self, gene2)
    THEN [err |-> "AssertionError", gene |-> BaseGeneInit(self.cls, NoKey)]
    ELSE LET c == NewGene(self.cls, self.key)
         IN IF c.err # "none" THEN c
            ELSE CrossoverLoop(self, gene2, c.gene, GeneAttributes(self.cls), 1, coin)

Crossover(a, b, cap) ==
    /\ a \in Live /\ b \in Live
    /\ \E coin \in CrossoverCoins(GeneAttributes(heap[a].cls)) :
          LET r == GeneCrossover(heap[a], heap[b], coin)
          IN IF r.err = "none"
             THEN /\ Len(heap) < cap
                  /\ heap' = Append(heap, r.gene)
                  /\ last' = Outcome("crossover", a, b, Len(heap) + 1, "none")
             ELSE /\ heap' = heap
                  /\ last' = Outcome("crossover", a, b, 0, r.err)

(***************************************************************************)
(* The life of genes under one configuration.                              *)
(***************************************************************************)
LifeConfig ==
    [x \in AllNames |->
        CASE x = "bias" -> {Float(0), Float(1)}
          [] x = "response" -> {Float(1)}
          [] x = "activation" -> {Str("sigmoid")}
          [] x = "aggregation" -> {Str("sum")}
          [] x = "weight" -> {Float(0), Float(1)}
          [] x = "enabled" -> {Bool(TRUE), Bool(FALSE)}]

LifeKeys(cls) ==
    IF cls = "node" THEN {IntKey(1), IntKey(2)}
    ELSE {TupleKey(<<IntKey(1), IntKey(2)>>)}

Init ==
    /\ heap = <<>>
    /\ last = Outcome("none", 0, 0, 0, "none")

Next ==
    \/ \E cls \in {"node", "conn"} : \E key \in LifeKeys(cls) : Construct(cls, key, MaxGenes)
    \/ \E g \in Live : InitAttributes(g, LifeConfig)
    \/ \E g \in Live : Mutate(g, LifeConfig)
    \/ \E g \in Live : Copy(g, MaxGenes)
    \/ \E a \in Live : \E b \in Live : Crossover(a, b, MaxGenes)

Spec == Init /\ [][Next]_vars

(***************************************************************************)
(* BaseGene.__lt__ and construction over keys of every shape.              *)
(***************************************************************************)
\* A check of the exact type in place of isinstance.
LtTypesEqual(self, other) == self.key.type = other.key.type

\* assert isinstance(self.key, type(other.key))
LtTypesAgree(self, other) == IsInstance(self.key, other.key.type)

\* self < other: the assertion, then the comparison of the keys.
GeneLt(self, other) ==
    IF ~LtTypesAgree(self, other) THEN [err |-> "AssertionError", ret |-> FALSE]
    ELSE PyLt(self.key, other.key)

Lt(a, b) ==
    /\ a \in Live /\ b \in Live
    /\ LET r == GeneLt(heap[a], heap[b])
       IN last' = [Outcome("lt", a, b, 0, r.err) EXCEPT !.lt = r.ret]
    /\ heap' = heap

I1 == Scalar("int", 1)

I2 == Scalar("int", 2)

Sa == Scalar("str", 1)

KeyUniverse ==
    { IntKey(1), IntKey(2), BoolKey(1), StrKey(1),
      TupleKey(<<I1, I2>>), TupleKey(<<I2, I1>>), TupleKey(<<I1>>),
      TupleKey(<<I1, I2, I1>>), TupleKey(<<I1, Sa>>), TupleKey(<<>>) }

NextKeys ==
    \/ \E cls \in {"node", "conn"} : \E key \in KeyUniverse : Construct(cls, key, 2)
    \/ \E g \in Live : InitAttributes(g, LifeConfig)
    \/ \E a \in Live : \E b \in Live : Lt(a, b)

SpecKeys == Init /\ [][NextKeys]_vars

(***************************************************************************)
(* DefaultNodeGene.distance and DefaultConnectionGene.distance.            *)
(***************************************************************************)
Initialised(g) == DOMAIN g.attrs = AttrNames(g.cls)

\* The penalty of one function attribute of a node gene.
FuncPenalty(v, w, gap) ==
    IF HasDistance(v) THEN FuncDistance(v, w, gap)
    ELSE IF ~ValueEq(v, w) THEN 1
    ELSE 0

\* A node distance that leaves the response out.
NodeDistanceNoResponse(self, other, k, gap) ==
    LET d0 == Abs(self.attrs["bias"].n - other.attrs["bias"].n)
        d1 == d0 + FuncPenalty(self.attrs["activation"], other.attrs["activation"], gap)
        d2 == d1 + FuncPenalty(self.attrs["aggregation"], other.attrs["aggregation"], gap)
    IN d2 * k

NodeDistance(self, other, k, gap) ==
    LET d0 == Abs(self.attrs["bias"].n - other.attrs["bias"].n)
                + Abs(self.attrs["response"].n - other.attrs["response"].n)
        d1 == d0 + FuncPenalty(self.attrs["activation"], other.attrs["activation"], gap)
        d2 == d1 + FuncPenalty(self.attrs["aggregation"], other.attrs["aggregation"], gap)
    IN d2 * k

\* A connection distance that scales the weight term only.
ConnectionDistanceWeightScaled(self, other, k) ==
    LET d0 == Abs(self.attrs["weight"].n - other.attrs["weight"].n)
    IN IF ~ValueEq(self.attrs["enabled"], other.attrs["enabled"]) THEN d0 * k + 1 ELSE d0 * k

ConnectionDistance(self, other, k) ==
    LET d0 == Abs(self.attrs["weight"].n - other.attrs["weight"].n)
        d1 == IF ~ValueEq(self.attrs["enabled"], other.attrs["enabled"]) THEN d0 + 1 ELSE d0
    IN d1 * k

\* self.distance(other, config); k is the compatibility weight coefficient
\* in halves, the result is in halves.
GeneDistance(self, other, k, gap) ==
    IF ~(AttrNames(self.cls) \subseteq DOMAIN self.attrs
            /\ AttrNames(self.cls) \subseteq DOMAIN other.attrs)
    THEN [err |-> "AttributeError", dist |-> 0]
    ELSE IF self.cls = "node"
    THEN [err |-> "none", dist |-> NodeDistance(self, other, k, gap)]
    ELSE [err |-> "none", dist |-> ConnectionDistance(self, other, k)]

Distance(a, b, k, gap) ==
    /\ a \in Live /\ b \in Live
    /\ LET r == GeneDistance(heap[a], heap[b], k, gap)
       IN last' = [Outcome("distance", a, b, 0, r.err)
                      EXCEPT !.dist = r.dist, !.k = k, !.gap = gap]
    /\ heap' = heap

Floats(lo, hi) == {Float(x) : x \in lo..hi}

DistConfig ==
    [x \in AllNames |->
        CASE x = "bias" -> Floats(1 - MaxFloat, MaxFloat - 1)
          [] x = "response" -> Floats(0, 1)
          [] x = "activation" -> {Str("sigmoid"), Str("tanh"), Func("relu")}
          [] x = "aggregation" -> {Str("sum"), Func("softmax")}
          [] x = "weight" -> Floats(-MaxFloat, MaxFloat)
          [] x = "enabled" -> {Bool(TRUE), Bool(FALSE)}]

\* The genes a variant has once construction and init_attributes are done.
InitialisedGenes(cls, keys, config) ==
    {InitLoop(BaseGeneInit(cls, key), GeneAttributes(cls), 1, d) :
        key \in keys, d \in InitDraws(cls, config)}

DistKeys(cls) == IF cls = "node" THEN {IntKey(7)} ELSE {TupleKey(<<I1, I2>>)}

\* Two initialised genes of one variant at one locus.
PairInit(config) ==
    /\ \E cls \in {"node", "conn"} : \E key \in DistKeys(cls) :
          \E a \in InitialisedGenes(cls, {key}, config) :
             \E b \in InitialisedGenes(cls, {key}, config) : heap = <<a, b>>
    /\ last = Outcome("none", 0, 0, 0, "none")

InitDist == PairInit(DistConfig)

NextDist ==
    \E k \in 0..MaxCoeff : \E gap \in 0..MaxFuncDist : Distance(1, 2, k, gap)

SpecDist == InitDist /\ [][NextDist]_vars

(***************************************************************************)
(* Copy and crossover over genes of every attribute kind.                  *)
(***************************************************************************)
RichConfig ==
    [x \in AllNames |->
        CASE x = "bias" -> {Float(0), Float(1)}
          [] x = "response" -> {Float(0), Float(1)}
          [] x = "activation" -> {Str("sigmoid"), Func("relu")}
          [] x = "aggregation" -> {Str("sum"), Str("max")}
          [] x = "weight" -> {Float(0), Float(1)}
          [] x = "enabled" -> {Bool(TRUE), Bool(FALSE)}]

InitCross == PairInit(RichConfig)

\* Two parents and the child they are crossed into.
NextCross == \E a \in Live : \E b \in Live : Crossover(a, b, 3)

SpecCross == InitCross /\ [][NextCross]_vars

\* One initialised gene.
InitCopy ==
    /\ \E cls \in {"node", "conn"} :
          \E g \in InitialisedGenes(cls, DistKeys(cls), RichConfig) : heap = <<g>>
    /\ last = Outcome("none", 0, 0, 0, "none")

\* The gene, its copy, and mutations of either.
NextCopy ==
    \/ Copy(1, 2)
    \/ \E g \in Live : Mutate(g, RichConfig)

SpecCopy == InitCopy /\ [][NextCopy]_vars

(***************************************************************************)
(* Properties.                                                             *)
(***************************************************************************)
SameAttrs(g, h) ==
    /\ DOMAIN g.attrs = DOMAIN h.attrs
    /\ \A x \in DOMAIN g.attrs : ValueEq(g.attrs[x], h.attrs[x])

DiffersEverywhere(g, h) ==
    \A x \in AttrNames(g.cls) : ~ValueEq(g.attrs[x], h.attrs[x])

\* C1: a.crossover(b) on two genes of one variant whose keys differ ends in
\* the key-mismatch error (AssertionError), returns no child and leaves
\* every gene, a and b included, as it was.
C1_CrossoverKeyMismatch ==
    [][ (/\ last'.op = "crossover"
         /\ heap[last'.self].cls = heap[last'.other].cls
         /\ ~PyEq(heap[last'.self].key, heap[last'.other].key))
        => (/\ last'.err = "AssertionError"
            /\ last'.res = 0
            /\ heap' = heap) ]_vars

C1_Witness ==
    /\ last.op = "crossover"
    /\ last.err = "AssertionError"
    /\ heap[last.self].cls = heap[last.other].cls
    /\ heap[last.self].key # heap[last.other].key
    /\ Initialised(heap[last.self]) /\ Initialised(heap[last.other])

\* The keys the two variants are specified to take: an integer for a node
\* gene, a pair of integers for a connection gene.
IntegerKey(key) == key.type \in {"int", "bool"}

PairOfIntegers(key) ==
    /\ key.type = "tuple"
    /\ Len(key.elems) = 2
    /\ \A i \in 1..Len(key.elems) : IntegerKey(key.elems[i])

SpecifiedKey(cls, key) ==
    IF cls = "node" THEN IntegerKey(key) ELSE PairOfIntegers(key)

C3_CopyIndependent ==
    [][ /\ (last'.op = "copy" /\ last'.err = "none") =>
              (/\ last'.res \notin Live
               /\ last'.res \in 1..Len(heap')
               /\ heap'[last'.res].cls = heap[last'.self].cls
               /\ heap'[last'.res].key = heap[last'.self].key
               /\ Initialised(heap'[last'.res])
               /\ SameAttrs(heap'[last'.res], heap[last'.self])
               /\ \A g \in Live : heap'[g] = heap[g])
        /\ last'.op = "mutate" =>
              (/\ Len(heap') = Len(heap)
               /\ heap'[last'.self].key = heap[last'.self].key
               /\ \A g \in Live \ {last'.self} : heap'[g] = heap[g]) ]_vars

C3_Witness ==
    /\ Len(heap) = 2
    /\ last.op = "mutate"
    /\ last.self = 2
    /\ last.err = "none"
    /\ ~SameAttrs(heap[1], heap[2])

\* C4: the child of a.crossover(b), a and b initialised genes of one variant
\* with equal keys, is a new gene with that key holding, for every declared
\* attribute, a's value or b's value; where the parents agree the child
\* holds the shared value.
C4_ChildFromParents ==
    (last.op = "crossover" /\ last.err = "none") =>
        LET a == heap[last.self]
            b == heap[last.other]
            c == heap[last.res]
        IN /\ last.res \notin {last.self, last.other}
           /\ c.cls = a.cls
           /\ c.key = a.key
           /\ PyEq(c.key, b.key)
           /\ DOMAIN c.attrs = AttrNames(a.cls)
           /\ \A x \in AttrNames(a.cls) :
                 \/ ValueEq(c.attrs[x], a.attrs[x])
                 \/ ValueEq(c.attrs[x], b.attrs[x])
           /\ SameAttrs(a, b) => SameAttrs(c, a)

C4_Witness ==
    /\ last.op = "crossover"
    /\ last.err = "none"
    /\ last.self # last.other
    /\ heap[last.self].cls = "node"
    /\ ~SameAttrs(heap[last.self], heap[last.other])
    /\ ~SameAttrs(heap[last.res], heap[last.self])
    /\ ~SameAttrs(heap[last.res], heap[last.other])

\* C5: the distance of two initialised connection genes is
\* (|A.weight - B.weight| + (1 if the enabled flags differ, else 0)) * k;
\* weight 2, enabled against weight -1, disabled with k = 0.5 gives 2
\* (4 halves).
C5_ConnectionDistance ==
    (last.op = "distance" /\ heap[last.self].cls = "conn") =>
        LET wa == heap[last.self].attrs["weight"].n
            wb == heap[last.other].attrs["weight"].n
            ea == heap[last.self].attrs["enabled"].n
            eb == heap[last.other].attrs["enabled"].n
            gap == IF wa >= wb THEN wa - wb ELSE wb - wa
            flag == IF ea = eb THEN 0 ELSE 1
        IN /\ last.err = "none"
           /\ last.dist = gap * last.k + flag * last.k
           /\ (wa = 2 /\ wb = -1 /\ ea = 1 /\ eb = 0 /\ last.k = 1) => last.dist = 4

C5_Witness ==
    /\ last.op = "distance"
    /\ heap[1].cls = "conn"
    /\ heap[1].attrs["weight"] = Float(2) /\ heap[1].attrs["enabled"] = Bool(TRUE)
    /\ heap[2].attrs["weight"] = Float(-1) /\ heap[2].attrs["enabled"] = Bool(FALSE)
    /\ last.k = 1
    /\ last.dist = 4

PlainNames(g) ==
    g.attrs["activation"].kind = "str" /\ g.attrs["aggregation"].kind = "str"

C7_DistanceSymmetric ==
    (last.op = "distance" /\ last.err = "none") =>
        last.dist = GeneDistance(heap[last.other], heap[last.self], last.k, last.gap).dist

\* C8 as stated: a < b is a.key < b.key when the two keys have the same
\* type, and the ordering-type error whenever their types differ, in either
\* operand order.
C8_Original ==
    last.op = "lt" =>
        LET ka == heap[last.self].key
            kb == heap[last.other].key
        IN IF ka.type = kb.type
           THEN last.err = PyLt(ka, kb).err /\ last.lt = PyLt(ka, kb).ret
           ELSE last.err = "AssertionError"

\* C8 amended: a < b fails with the ordering-type error whenever a's key is
\* not an instance of the type of b's key, so an integer key against a pair
\* key fails in either order; otherwise (keys of the same type, or a bool
\* key on the left of an int key) it is a.key < b.key, whatever the
\* attribute values.
C8_Amended ==
    last.op = "lt" =>
        LET ka == heap[last.self].key
            kb == heap[last.other].key
        IN IF ka.type = kb.type \/ (ka.type = "bool" /\ kb.type = "int")
           THEN last.err = PyLt(ka, kb).err /\ last.lt = PyLt(ka, kb).ret
           ELSE last.err = "AssertionError"

C8_Witness ==
    /\ last.op = "lt"
    /\ heap[last.self].key.type = "int"
    /\ heap[last.other].key.type = "tuple"
    /\ last.err = "AssertionError"
    /\ Initialised(heap[last.self])

\* C9: every gene holds either no attribute value (it was never initialised)
\* or a value for exactly the attribute names its variant declares; a gene
\* that is initialised stays so, a gene just initialised, copied or crossed
\* holds exactly the declared names, and a gene's key is the key it was
\* constructed with.
C9_ExactAttributes ==
    [][ \A g \in 1..Len(heap') :
          /\ DOMAIN heap'[g].attrs \in {{}, AttrNames(heap'[g].cls)}
          /\ g \in Live =>
                (/\ heap'[g].key = heap[g].key
                 /\ heap'[g].cls = heap[g].cls
                 /\ Initialised(heap[g]) => Initialised(heap'[g]))
          /\ (last'.op = "init_attributes" /\ last'.self = g) => Initialised(heap'[g])
          /\ (last'.op \in {"copy", "crossover"} /\ last'.res = g) =>
                (Initialised(heap'[g]) /\ heap'[g].key = heap[last'.self].key)
          /\ (last'.op = "construct" /\ last'.res = g) =>
                (heap'[g].key = last'.arg /\ g \notin Live) ]_vars

C9_Witness ==
    /\ last.op = "crossover"
    /\ last.err = "none"
    /\ heap[last.res].cls = "node"
    /\ DOMAIN heap[last.res].attrs = {"bias", "response", "activation", "aggregation"}
    /\ heap[last.res].key = IntKey(2)

\* The child that takes attribute i from a when pick[i] and from b otherwise.
TakesFrom(c, a, b, pick) ==
    \A i \in 1..Len(GeneAttributes(a.cls)) :
       LET x == GeneAttributes(a.cls)[i].name
       IN ValueEq(c.attrs[x], IF pick[i] THEN a.attrs[x] ELSE b.attrs[x])

\* C10: for two parents with equal keys that differ on every attribute,
\* each of the 2^n assignments of the n attributes to the parents is a child
\* crossover can return, the mixed ones included.
C10_EveryAssignmentPossible ==
    \A a \in Live : \A b \in Live :
       (Len(heap) = 2 /\ DiffersEverywhere(heap[a], heap[b])) =>
          \A pick \in [1..Len(GeneAttributes(heap[a].cls)) -> BOOLEAN] :
             ENABLED (/\ Crossover(a, b, 3)
                      /\ last'.err = "none"
                      /\ TakesFrom(heap'[last'.res], heap[a], heap[b], pick))

C10_Witness ==
    /\ last.op = "crossover"
    /\ last.err = "none"
    /\ DiffersEverywhere(heap[last.self], heap[last.other])
    /\ \E x \in AttrNames(heap[last.res].cls) : \E y \in AttrNames(heap[last.res].cls) :
          /\ ValueEq(heap[last.res].attrs[x], heap[last.self].attrs[x])
          /\ ValueEq(heap[last.res].attrs[y], heap[last.other].attrs[y])

====
